---- MODULE Spec2Model ----
(***************************************************************************)
(* The device-side USB shell of updatershell/usbshell.cpp: usbshell_loop   *)
(* reads fixed-size request frames from a UsbTransfer, dispatches on the   *)
(* 4-byte command tag, writes one usb_shell_response and optionally runs   *)
(* a command-specific data phase, until an EXIT request.                   *)
(***************************************************************************)
EXTENDS Integers, Sequences, FiniteSets, TLC

VARIABLES pc,        \* position of usbshell_loop
          request,   \* usb_shell_request of the current iteration
          response,  \* usb_shell_response of the current iteration
          loc,       \* the branch-local variables of the current iteration
          ops,       \* calls made since (and including) the last request read
          nreq,      \* number of request frames read so far
          nresp,     \* number of response frames written so far
          fds,       \* the process's open descriptors above stderr
          errno,     \* the C library's errno
          transfer,  \* the UsbTransfer object: "none", "live" or "deleted"
          cmd,       \* the UsbCmd object: "none", "live" or "deleted"
          image      \* the bootloader image of the device: its blocks

vars == <<pc, request, response, loc, ops, nreq, nresp, fds, errno,
          transfer, cmd, image>>

---------------------------------------------------------------------------
(* Bounds of the model. *)

MaxRequests == 3
MaxBlocks == 2

---------------------------------------------------------------------------
(* Program and platform constants. *)

USB_RESULT_SUCCESS == 0
USB_RESULT_ERROR == -1

ENOENT == 2
EACCES == 13
EBADF == 9

---------------------------------------------------------------------------
\* Command tags: four ASCII characters read as one host-endian int.

AsInt(b) == b[1] + 256 * b[2] + 65536 * b[3] + 16777216 * b[4]

TagTEST == AsInt(<<84, 69, 83, 84>>)
TagINFO == AsInt(<<73, 78, 70, 79>>)
TagSHEL == AsInt(<<83, 72, 69, 76>>)
TagEXEC == AsInt(<<69, 88, 69, 67>>)
TagPULL == AsInt(<<80, 85, 76, 76>>)
TagBLDR == AsInt(<<66, 76, 68, 82>>)
TagEXIT == AsInt(<<69, 88, 73, 84>>)

KnownTags == {TagTEST, TagINFO, TagSHEL, TagEXEC, TagPULL, TagBLDR, TagEXIT}

\* The first four bytes of the frames a host may send: the seven commands,
\* "XYZQ", "TSET" (TEST with its middle bytes swapped), "TESU" (TEST with
\* its last byte changed) and four zero bytes.
WireTags == {<<84, 69, 83, 84>>, <<73, 78, 70, 79>>, <<83, 72, 69, 76>>,
             <<69, 88, 69, 67>>, <<80, 85, 76, 76>>, <<66, 76, 68, 82>>,
             <<69, 88, 73, 84>>, <<88, 89, 90, 81>>, <<84, 83, 69, 84>>,
             <<84, 69, 83, 85>>, <<0, 0, 0, 0>>}

\* The payloads a host may send, as the null-terminated string they hold.
Payloads == {"/a", "/secret", "/missing"}

\* struct usb_shell_request, as transfer->read fills it from a frame.
Frame(tag, data) == [cmd |-> AsInt(tag), data |-> data]

---------------------------------------------------------------------------
(* The file system seen by open(): "/a" is a readable file, "/secret"     *)
(* exists but is not readable, nothing else exists.                        *)

FileSystem == ("/a" :> [readable |-> TRUE, bytes |-> <<7, 8, 7>>]) @@
              ("/secret" :> [readable |-> FALSE, bytes |-> <<9>>])

\* The lowest descriptor above stderr that is not open in f.
FreeFd(f) == CHOOSE n \in 3..(3 + Cardinality(DOMAIN f)) :
                 /\ n \notin DOMAIN f
                 /\ \A m \in 3..(n - 1) : m \in DOMAIN f

\* open(path, O_RDONLY): the descriptor, or -1 with errno set.
Open(f, path) ==
    IF path \notin DOMAIN FileSystem THEN [ret |-> -1, errno |-> ENOENT]
    ELSE IF ~FileSystem[path].readable THEN [ret |-> -1, errno |-> EACCES]
    ELSE [ret |-> FreeFd(f), errno |-> 0]

\* close(d) on the descriptor table f.
Close(f, d) == [x \in DOMAIN f \ {d} |-> f[x]]

Empty == [x \in {} |-> 0]


\* What usb_transfer_read_fd reads from descriptor d: from the descriptor's
\* offset to the end of the file it is open on.
ReadToEof(f, d) ==
    IF d \in DOMAIN f /\ f[d].kind = "file"
    THEN SubSeq(FileSystem[f[d].path].bytes, f[d].off + 1,
                Len(FileSystem[f[d].path].bytes))
    ELSE <<>>

---------------------------------------------------------------------------
(* Collaborator outcomes. *)

\* get_device_info: 0 on success, an error code otherwise; the int it
\* returns is of either sign.
InfoResults == {0, -1, -5, 22}

\* popen2: the pid of the spawned process, or a negative code.
PopenResults == {-12, -1, 42}

\* The bootloader images a device may hold: block k is k bytes long.
Block(k) == [j \in 1..k |-> k]
Image(n) == [k \in 1..n |-> Block(k)]
Images == {Image(n) : n \in 0..MaxBlocks}

\* What a block buffer may hold when the bootloader device is not open.
GarbageBlocks == {<<>>, <<0>>, <<255>>}

---------------------------------------------------------------------------
(* The record of calls. *)

Ev(op, arg) == [op |-> op, arg |-> arg]

\* Branch comparing the first three bytes of the tag only.
Branch_ThreeBytes(r) ==
    LET t == r.cmd % 16777216 IN
    IF t = TagTEST % 16777216 THEN "TEST"
    ELSE IF t = TagINFO % 16777216 THEN "INFO"
    ELSE IF t = TagSHEL % 16777216 THEN "SHEL"
    ELSE IF t = TagEXEC % 16777216 THEN "EXEC"
    ELSE IF t = TagPULL % 16777216 THEN "PULL"
    ELSE IF t = TagBLDR % 16777216 THEN "BLDR"
    ELSE IF t = TagEXIT % 16777216 THEN "EXIT"
    ELSE "unknown"

\* The if/else chain of usbshell_loop on request.cmd.
Branch(r) ==
    IF r.cmd = TagTEST THEN "TEST"
    ELSE IF r.cmd = TagINFO THEN "INFO"
    ELSE IF r.cmd = TagSHEL THEN "SHEL"
    ELSE IF r.cmd = TagEXEC THEN "EXEC"
    ELSE IF r.cmd = TagPULL THEN "PULL"
    ELSE IF r.cmd = TagBLDR THEN "BLDR"
    ELSE IF r.cmd = TagEXIT THEN "EXIT"
    ELSE "unknown"

\* response.result = result; transfer->write(&response, sizeof(response)),
\* after the calls of log; the write returns or throws.
WriteResponse(log, result, next) ==
    /\ response' = [result |-> result]
    /\ \E ok \in BOOLEAN :
         IF ok
         THEN /\ ops' = Append(log, Ev("write_response", result))
              /\ nresp' = nresp + 1
              /\ pc' = next
         ELSE /\ ops' = Append(log, Ev("throw", "write_response"))
              /\ nresp' = nresp
              /\ pc' = "crashed"

\* Any other blocking call on the transport: it returns or throws.
TransportOp(ev, next) ==
    \E ok \in BOOLEAN :
      IF ok
      THEN ops' = Append(ops, ev) /\ pc' = next
      ELSE ops' = Append(ops, Ev("throw", ev.op)) /\ pc' = "crashed"

---------------------------------------------------------------------------
(* usbshell_loop *)

Init ==
    /\ pc = "new_cmd"
    /\ request = Empty
    /\ response = Empty
    /\ loc = Empty
    /\ ops = <<>>
    /\ nreq = 0
    /\ nresp = 0
    /\ fds = Empty
    /\ errno = 0
    /\ transfer = "none"
    /\ cmd = "none"
    /\ image \in Images

NewCmd ==
    /\ pc = "new_cmd"
    /\ cmd' = "live"
    /\ pc' = "new_transfer"
    /\ UNCHANGED <<request, response, loc, ops, nreq, nresp, fds, errno,
                   transfer, image>>

NewTransfer ==
    /\ pc = "new_transfer"
    /\ transfer' = "live"
    /\ pc' = "read"
    /\ UNCHANGED <<request, response, loc, ops, nreq, nresp, fds, errno,
                   cmd, image>>

\* ReadRequest catching a failed read and trying again.
ReadRequest_Retry ==
    /\ pc = "read"
    /\ nreq < MaxRequests
    /\ \E tag \in WireTags, data \in Payloads, ok \in BOOLEAN :
         IF ok
         THEN /\ request' = Frame(tag, data)
              /\ ops' = <<Ev("read_request", Frame(tag, data))>>
              /\ nreq' = nreq + 1
              /\ pc' = "dispatch"
         ELSE /\ request' = Empty
              /\ ops' = <<Ev("throw", "read_request")>>
              /\ nreq' = nreq
              /\ pc' = "read"
    /\ response' = Empty
    /\ loc' = Empty
    /\ UNCHANGED <<nresp, fds, errno, transfer, cmd, image>>

\* transfer->read(&request, sizeof(request)) at the top of the loop.
ReadRequest ==
    /\ pc = "read"
    /\ nreq < MaxRequests
    /\ \E tag \in WireTags, data \in Payloads, ok \in BOOLEAN :
         IF ok
         THEN /\ request' = Frame(tag, data)
              /\ ops' = <<Ev("read_request", Frame(tag, data))>>
              /\ nreq' = nreq + 1
              /\ pc' = "dispatch"
         ELSE /\ request' = Empty
              /\ ops' = <<Ev("throw", "read_request")>>
              /\ nreq' = nreq
              /\ pc' = "crashed"
    /\ response' = Empty
    /\ loc' = Empty
    /\ UNCHANGED <<nresp, fds, errno, transfer, cmd, image>>

\* HandleTEST with a result that depends on the payload.
HandleTEST_Error ==
    /\ pc = "dispatch"
    /\ Branch(request) = "TEST"
    /\ WriteResponse(ops,
                     IF request.data = "/missing" THEN USB_RESULT_ERROR
                     ELSE USB_RESULT_SUCCESS,
                     "read")
    /\ UNCHANGED <<request, loc, nreq, fds, errno, transfer, cmd, image>>

\* HandleTEST leaving a descriptor open on every call.
HandleTEST_Leak ==
    /\ pc = "dispatch"
    /\ Branch(request) = "TEST"
    /\ WriteResponse(ops, USB_RESULT_SUCCESS, "read")
    /\ fds' = fds @@ (FreeFd(fds) :> [kind |-> "file", path |-> "/a",
                                      off |-> 0])
    /\ UNCHANGED <<request, loc, nreq, errno, transfer, cmd, image>>

HandleTEST ==
    /\ pc = "dispatch"
    /\ Branch(request) = "TEST"
    /\ WriteResponse(ops, USB_RESULT_SUCCESS, "read")
    /\ UNCHANGED <<request, loc, nreq, fds, errno, transfer, cmd, image>>

\* InfoRespond with the test after the response inverted: if (err).
InfoRespond_InvertedTest ==
    /\ pc = "dispatch"
    /\ Branch(request) = "INFO"
    /\ \E err \in InfoResults :
         /\ loc' = [err |-> err]
         /\ WriteResponse(Append(ops, Ev("get_device_info", err)),
                          IF err = 0 THEN USB_RESULT_SUCCESS ELSE err,
                          IF err # 0 THEN "info_read0" ELSE "read")
    /\ UNCHANGED <<request, nreq, fds, errno, transfer, cmd, image>>

\* InfoRespond with the data phase entered whatever err is.
InfoRespond_NoCheck ==
    /\ pc = "dispatch"
    /\ Branch(request) = "INFO"
    /\ \E err \in InfoResults :
         /\ loc' = [err |-> err]
         /\ WriteResponse(Append(ops, Ev("get_device_info", err)),
                          IF err = 0 THEN USB_RESULT_SUCCESS ELSE err,
                          "info_read0")
    /\ UNCHANGED <<request, nreq, fds, errno, transfer, cmd, image>>

\* INFO: get_device_info, the response, and the test of err after it.
InfoRespond ==
    /\ pc = "dispatch"
    /\ Branch(request) = "INFO"
    /\ \E err \in InfoResults :
         /\ loc' = [err |-> err]
         /\ WriteResponse(Append(ops, Ev("get_device_info", err)),
                          IF err = 0 THEN USB_RESULT_SUCCESS ELSE err,
                          IF err = 0 THEN "info_read0" ELSE "read")
    /\ UNCHANGED <<request, nreq, fds, errno, transfer, cmd, image>>

\* transfer->read(NULL, 0)
InfoRead0 ==
    /\ pc = "info_read0"
    /\ TransportOp(Ev("read0", 0), "info_write")
    /\ UNCHANGED <<request, response, loc, nreq, nresp, fds, errno,
                   transfer, cmd, image>>

\* transfer->write(&info, sizeof(info))
InfoWrite ==
    /\ pc = "info_write"
    /\ TransportOp(Ev("write_info", "device_info"), "read")
    /\ UNCHANGED <<request, response, loc, nreq, nresp, fds, errno,
                   transfer, cmd, image>>

\* popen2(args, &fd_stdin, &fd_stdout): on success the parent holds one
\* pipe end per requested stream; a NULL pointer requests no pipe.
Popen2(f, pid, want_stdin) ==
    IF pid < 0 THEN [fds |-> f, loc |-> [pid |-> pid]]
    ELSE IF want_stdin
    THEN LET i == FreeFd(f)
             g == f @@ (i :> [kind |-> "pipe", path |-> "stdin", off |-> 0])
             o == FreeFd(g)
         IN [fds |-> g @@ (o :> [kind |-> "pipe", path |-> "stdout", off |-> 0]),
             loc |-> [pid |-> pid, fd_stdin |-> i, fd_stdout |-> o]]
    ELSE LET o == FreeFd(f)
         IN [fds |-> f @@ (o :> [kind |-> "pipe", path |-> "stdout", off |-> 0]),
             loc |-> [pid |-> pid, fd_stdout |-> o]]

\* usb_transfer_socket(transfer, fd_in, fd_out): relays until one side
\* ends, then returns with the descriptors it was given released; 0 as
\* fd_in stands for no input side.
UsbTransferSocket(fd_in, fd_out) ==
    /\ TransportOp(Ev("usb_transfer_socket", <<fd_in, fd_out>>), "read")
    /\ fds' = Close(Close(fds, fd_out), fd_in)

\* ShelRespond sending the pid as the result of a successful spawn.
ShelRespond_PidAsResult ==
    /\ pc = "dispatch"
    /\ Branch(request) = "SHEL"
    /\ \E pid \in PopenResults :
         LET r == Popen2(fds, pid, TRUE) IN
         /\ loc' = r.loc
         /\ fds' = r.fds
         /\ WriteResponse(Append(ops, Ev("popen2", <<"sh", "-i">>)),
                          pid,
                          IF pid >= 0 THEN "shel_bridge" ELSE "read")
    /\ UNCHANGED <<request, nreq, errno, transfer, cmd, image>>

\* ShelRespond going back to the top of the loop on a failed spawn without
\* writing the response.
ShelRespond_SilentFailure ==
    /\ pc = "dispatch"
    /\ Branch(request) = "SHEL"
    /\ \E pid \in PopenResults :
         LET r == Popen2(fds, pid, TRUE) IN
         /\ loc' = r.loc
         /\ fds' = r.fds
         /\ IF pid >= 0
            THEN WriteResponse(Append(ops, Ev("popen2", <<"sh", "-i">>)),
                               USB_RESULT_SUCCESS, "shel_bridge")
            ELSE /\ response' = [result |-> pid]
                 /\ ops' = Append(ops, Ev("popen2", <<"sh", "-i">>))
                 /\ nresp' = nresp
                 /\ pc' = "read"
    /\ UNCHANGED <<request, nreq, errno, transfer, cmd, image>>

\* SHEL: popen2 of sh -i, the response, and the test of pid after it.
ShelRespond ==
    /\ pc = "dispatch"
    /\ Branch(request) = "SHEL"
    /\ \E pid \in PopenResults :
         LET r == Popen2(fds, pid, TRUE) IN
         /\ loc' = r.loc
         /\ fds' = r.fds
         /\ WriteResponse(Append(ops, Ev("popen2", <<"sh", "-i">>)),
                          IF pid >= 0 THEN USB_RESULT_SUCCESS ELSE pid,
                          IF pid >= 0 THEN "shel_bridge" ELSE "read")
    /\ UNCHANGED <<request, nreq, errno, transfer, cmd, image>>

ShelBridge ==
    /\ pc = "shel_bridge"
    /\ UsbTransferSocket(loc.fd_stdin, loc.fd_stdout)
    /\ UNCHANGED <<request, response, loc, nreq, nresp, errno, transfer,
                   cmd, image>>

\* ExecRespond answering a failed spawn with the generic error.
ExecRespond_GenericError ==
    /\ pc = "dispatch"
    /\ Branch(request) = "EXEC"
    /\ \E pid \in PopenResults :
         LET r == Popen2(fds, pid, FALSE) IN
         /\ loc' = r.loc
         /\ fds' = r.fds
         /\ WriteResponse(Append(ops, Ev("popen2", <<"sh", "-c", request.data>>)),
                          IF pid >= 0 THEN USB_RESULT_SUCCESS
                          ELSE USB_RESULT_ERROR,
                          IF pid >= 0 THEN "exec_bridge" ELSE "read")
    /\ UNCHANGED <<request, nreq, errno, transfer, cmd, image>>

\* EXEC: popen2 of sh -c request.data with no stdin pipe.
ExecRespond ==
    /\ pc = "dispatch"
    /\ Branch(request) = "EXEC"
    /\ \E pid \in PopenResults :
         LET r == Popen2(fds, pid, FALSE) IN
         /\ loc' = r.loc
         /\ fds' = r.fds
         /\ WriteResponse(Append(ops, Ev("popen2", <<"sh", "-c", request.data>>)),
                          IF pid >= 0 THEN USB_RESULT_SUCCESS ELSE pid,
                          IF pid >= 0 THEN "exec_bridge" ELSE "read")
    /\ UNCHANGED <<request, nreq, errno, transfer, cmd, image>>

\* ExecBridge wired as the SHEL bridge is, with the output pipe on both
\* sides.
ExecBridge_BothSides ==
    /\ pc = "exec_bridge"
    /\ UsbTransferSocket(loc.fd_stdout, loc.fd_stdout)
    /\ UNCHANGED <<request, response, loc, nreq, nresp, errno, transfer,
                   cmd, image>>

ExecBridge ==
    /\ pc = "exec_bridge"
    /\ UsbTransferSocket(0, loc.fd_stdout)
    /\ UNCHANGED <<request, response, loc, nreq, nresp, errno, transfer,
                   cmd, image>>

\* PullRespond with the data phase entered whatever fd is.
PullRespond_NoCheck ==
    /\ pc = "dispatch"
    /\ Branch(request) = "PULL"
    /\ LET r == Open(fds, request.data) IN
         /\ loc' = [fd |-> r.ret]
         /\ errno' = IF r.ret < 0 THEN r.errno ELSE errno
         /\ fds' = IF r.ret >= 0
                   THEN fds @@ (r.ret :> [kind |-> "file",
                                          path |-> request.data, off |-> 0])
                   ELSE fds
         /\ WriteResponse(Append(ops, Ev("open", request.data)),
                          IF r.ret >= 0 THEN USB_RESULT_SUCCESS ELSE r.ret,
                          "pull_stream")
    /\ UNCHANGED <<request, nreq, transfer, cmd, image>>

\* PullRespond with the file streamed before the response is written.
PullRespond_StreamFirst ==
    /\ pc = "dispatch"
    /\ Branch(request) = "PULL"
    /\ LET r == Open(fds, request.data)
           g == IF r.ret >= 0
                THEN fds @@ (r.ret :> [kind |-> "file",
                                       path |-> request.data, off |-> 0])
                ELSE fds
       IN
         /\ loc' = [fd |-> r.ret]
         /\ errno' = IF r.ret < 0 THEN r.errno ELSE errno
         /\ fds' = IF r.ret >= 0 THEN Close(g, r.ret) ELSE fds
         /\ WriteResponse(
              IF r.ret >= 0
              THEN ops \o <<Ev("open", request.data),
                            Ev("usb_transfer_read_fd",
                               [fd |-> r.ret, bytes |-> ReadToEof(g, r.ret)])>>
              ELSE Append(ops, Ev("open", request.data)),
              IF r.ret >= 0 THEN USB_RESULT_SUCCESS ELSE r.ret,
              "read")
    /\ UNCHANGED <<request, nreq, transfer, cmd, image>>

\* PULL: open(request.data, O_RDONLY), the response, the test of fd.
PullRespond ==
    /\ pc = "dispatch"
    /\ Branch(request) = "PULL"
    /\ LET r == Open(fds, request.data) IN
         /\ loc' = [fd |-> r.ret]
         /\ errno' = IF r.ret < 0 THEN r.errno ELSE errno
         /\ fds' = IF r.ret >= 0
                   THEN fds @@ (r.ret :> [kind |-> "file",
                                          path |-> request.data, off |-> 0])
                   ELSE fds
         /\ WriteResponse(Append(ops, Ev("open", request.data)),
                          IF r.ret >= 0 THEN USB_RESULT_SUCCESS ELSE r.ret,
                          IF r.ret >= 0 THEN "pull_stream" ELSE "read")
    /\ UNCHANGED <<request, nreq, transfer, cmd, image>>

\* usb_transfer_read_fd(transfer, fd): streams the descriptor until its
\* end of file and releases it.
UsbTransferReadFd(fd) ==
    /\ TransportOp(Ev("usb_transfer_read_fd",
                      [fd |-> fd, bytes |-> ReadToEof(fds, fd)]), "read")
    /\ fds' = Close(fds, fd)

\* PullStream handing the bridge's "no descriptor" value 0 to the stream.
PullStream_WrongFd ==
    /\ pc = "pull_stream"
    /\ UsbTransferReadFd(0)
    /\ UNCHANGED <<request, response, loc, nreq, nresp, errno, transfer,
                   cmd, image>>

PullStream ==
    /\ pc = "pull_stream"
    /\ UsbTransferReadFd(loc.fd)
    /\ UNCHANGED <<request, response, loc, nreq, nresp, errno, transfer,
                   cmd, image>>

\* BldrRespond testing fd: a failed open is answered with fd and the loop
\* goes back to the read.
BldrRespond_CheckOpen ==
    /\ pc = "dispatch"
    /\ Branch(request) = "BLDR"
    /\ \E dev \in BOOLEAN :
         LET fd == IF dev THEN FreeFd(fds) ELSE -1 IN
         /\ loc' = [fd |-> fd, num_blocks |-> Len(image)]
         /\ errno' = IF dev THEN errno ELSE ENOENT
         /\ fds' = IF dev
                   THEN fds @@ (fd :> [kind |-> "dev",
                                       path |-> "BOOTLOADER_DEV", off |-> 0])
                   ELSE fds
         /\ WriteResponse(ops \o <<Ev("open", "BOOTLOADER_DEV"),
                                   Ev("bootloader_get_num_blocks", Len(image))>>,
                          IF dev THEN Len(image) ELSE fd,
                          IF dev THEN "bldr_get_blocks" ELSE "read")
    /\ UNCHANGED <<request, nreq, transfer, cmd, image>>

\* BLDR: open(BOOTLOADER_DEV, O_RDONLY), bootloader_get_num_blocks, and
\* the response carrying the count; the open may fail and is not tested.
BldrRespond ==
    /\ pc = "dispatch"
    /\ Branch(request) = "BLDR"
    /\ \E dev \in BOOLEAN :
         LET fd == IF dev THEN FreeFd(fds) ELSE -1 IN
         /\ loc' = [fd |-> fd, num_blocks |-> Len(image)]
         /\ errno' = IF dev THEN errno ELSE ENOENT
         /\ fds' = IF dev
                   THEN fds @@ (fd :> [kind |-> "dev",
                                       path |-> "BOOTLOADER_DEV", off |-> 0])
                   ELSE fds
         /\ WriteResponse(ops \o <<Ev("open", "BOOTLOADER_DEV"),
                                   Ev("bootloader_get_num_blocks", Len(image))>>,
                          Len(image), "bldr_get_blocks")
    /\ UNCHANGED <<request, nreq, transfer, cmd, image>>

\* bootloader_block blocks[num_blocks]; bootloader_get_blocks(fd, blocks)
BldrGetBlocks ==
    /\ pc = "bldr_get_blocks"
    /\ loc' = loc @@ [i |-> 0]
    /\ ops' = Append(ops, Ev("bootloader_get_blocks", loc.fd))
    /\ pc' = "bldr_loop"
    /\ UNCHANGED <<request, response, nreq, nresp, fds, errno, transfer,
                   cmd, image>>

\* One turn of the loop over the blocks: the size, the read into block_buf
\* and usb_transfer_read_buffer(transfer, block_buf, l). With the device
\* not open the descriptor and the buffer hold whatever they held.
BldrBlock ==
    /\ pc = "bldr_loop"
    /\ loc.i < loc.num_blocks
    /\ \E buf \in IF loc.fd >= 0 THEN {image[loc.i + 1]} ELSE GarbageBlocks,
          ok \in BOOLEAN :
         LET log == Append(ops, Ev("bootloader_read_block", loc.fd)) IN
         IF ok
         THEN /\ ops' = Append(log, Ev("usb_transfer_read_buffer", buf))
              /\ pc' = "bldr_loop"
         ELSE /\ ops' = Append(log, Ev("throw", "usb_transfer_read_buffer"))
              /\ pc' = "crashed"
    /\ loc' = [loc EXCEPT !.i = @ + 1]
    /\ UNCHANGED <<request, response, nreq, nresp, fds, errno, transfer,
                   cmd, image>>

\* BldrClose with the close left out.
BldrClose_NoClose ==
    /\ pc = "bldr_loop"
    /\ ~(loc.i < loc.num_blocks)
    /\ pc' = "read"
    /\ UNCHANGED <<request, response, loc, ops, nreq, nresp, fds, errno,
                   transfer, cmd, image>>

\* close(fd) after the last block.
BldrClose ==
    /\ pc = "bldr_loop"
    /\ ~(loc.i < loc.num_blocks)
    /\ fds' = Close(fds, loc.fd)
    /\ errno' = IF loc.fd \in DOMAIN fds THEN errno ELSE EBADF
    /\ ops' = Append(ops, Ev("close", loc.fd))
    /\ pc' = "read"
    /\ UNCHANGED <<request, response, loc, nreq, nresp, transfer, cmd, image>>

\* HandleEXIT going to the deletes without the usleep.
HandleEXIT_NoDrain ==
    /\ pc = "dispatch"
    /\ Branch(request) = "EXIT"
    /\ WriteResponse(ops, USB_RESULT_SUCCESS, "delete_transfer")
    /\ UNCHANGED <<request, loc, nreq, fds, errno, transfer, cmd, image>>

\* HandleEXIT with the break left out.
HandleEXIT_NoBreak ==
    /\ pc = "dispatch"
    /\ Branch(request) = "EXIT"
    /\ WriteResponse(ops, USB_RESULT_SUCCESS, "read")
    /\ UNCHANGED <<request, loc, nreq, fds, errno, transfer, cmd, image>>

\* EXIT: the response, then break.
HandleEXIT ==
    /\ pc = "dispatch"
    /\ Branch(request) = "EXIT"
    /\ WriteResponse(ops, USB_RESULT_SUCCESS, "usleep")
    /\ UNCHANGED <<request, loc, nreq, fds, errno, transfer, cmd, image>>

\* HandleUnknown with the write of the response left out of the else branch.
HandleUnknown_NoWrite ==
    /\ pc = "dispatch"
    /\ Branch(request) = "unknown"
    /\ response' = [result |-> USB_RESULT_ERROR]
    /\ pc' = "read"
    /\ UNCHANGED <<request, loc, ops, nreq, nresp, fds, errno, transfer,
                   cmd, image>>

\* The else branch: any other tag.
HandleUnknown ==
    /\ pc = "dispatch"
    /\ Branch(request) = "unknown"
    /\ WriteResponse(ops, USB_RESULT_ERROR, "read")
    /\ UNCHANGED <<request, loc, nreq, fds, errno, transfer, cmd, image>>

\* usleep(500e3)
Drain ==
    /\ pc = "usleep"
    /\ ops' = Append(ops, Ev("usleep", 500))
    /\ pc' = "delete_transfer"
    /\ UNCHANGED <<request, response, loc, nreq, nresp, fds, errno,
                   transfer, cmd, image>>

DeleteTransfer ==
    /\ pc = "delete_transfer"
    /\ transfer' = "deleted"
    /\ ops' = Append(ops, Ev("delete", "transfer"))
    /\ pc' = "delete_cmd"
    /\ UNCHANGED <<request, response, loc, nreq, nresp, fds, errno, cmd,
                   image>>

DeleteCmd ==
    /\ pc = "delete_cmd"
    /\ cmd' = "deleted"
    /\ ops' = Append(ops, Ev("delete", "cmd"))
    /\ pc' = "returned"
    /\ UNCHANGED <<request, response, loc, nreq, nresp, fds, errno,
                   transfer, image>>

\* The steps that wait for nothing but the transport and the collaborators.
DeviceStep ==
    \/ NewCmd \/ NewTransfer
    \/ HandleTEST \/ InfoRespond \/ InfoRead0 \/ InfoWrite
    \/ ShelRespond \/ ExecRespond \/ PullRespond \/ PullStream
    \/ BldrRespond \/ BldrGetBlocks \/ BldrBlock \/ BldrClose
    \/ HandleEXIT \/ HandleUnknown
    \/ Drain \/ DeleteTransfer \/ DeleteCmd

Next ==
    \/ NewCmd \/ NewTransfer \/ ReadRequest
    \/ HandleTEST \/ InfoRespond \/ InfoRead0 \/ InfoWrite
    \/ ShelRespond \/ ShelBridge \/ ExecRespond \/ ExecBridge
    \/ PullRespond \/ PullStream
    \/ BldrRespond \/ BldrGetBlocks \/ BldrBlock \/ BldrClose
    \/ HandleEXIT \/ HandleUnknown
    \/ Drain \/ DeleteTransfer \/ DeleteCmd

Spec == Init /\ [][Next]_vars

\* The loop is one thread of blocking calls: a call that waits only for the
\* transport or a collaborator returns (or throws). The host need not send
\* a further request, and a bridged process need not end.
LiveSpec == Spec /\ WF_vars(DeviceStep)

---------------------------------------------------------------------------
(* Reading the record of calls. *)

Count(log, op) == Cardinality({k \in 1..Len(log) : log[k].op = op})

Has(log, op) == \E k \in 1..Len(log) : log[k].op = op

SameEv(a, b) == a.op = b.op /\ a.arg = b.arg

IsPrefix(s, t) ==
    /\ Len(s) <= Len(t)
    /\ \A k \in 1..Len(s) : SameEv(s[k], t[k])

\* The calls that returned: the record without a final throw.
Returned(log) ==
    IF log # <<>> /\ log[Len(log)].op = "throw"
    THEN SubSeq(log, 1, Len(log) - 1)
    ELSE log

\* A request is current: its frame was read and no later frame has been.
InRequest == ops # <<>> /\ ops[1].op = "read_request"

\* The current request's response frame has been written.
Responded == InRequest /\ Has(ops, "write_response")

\* The result of the response frame written for the current request.
Result == ops[CHOOSE k \in 1..Len(ops) : ops[k].op = "write_response"].arg

\* The transport operations of the data phases.
DataOps == {"read0", "write_info", "usb_transfer_socket",
            "usb_transfer_read_fd", "usb_transfer_read_buffer"}

\* The calls into the collaborators.
CollaboratorOps == {"get_device_info", "popen2", "open",
                    "bootloader_get_num_blocks", "bootloader_get_blocks",
                    "bootloader_read_block", "close"}

\* The data-phase operations in the record, in order.
DataPhase(log) == SelectSeq(log, LAMBDA e : e.op \in DataOps)

\* The loop has left the while statement.
Terminated == pc \in {"usleep", "delete_transfer", "delete_cmd", "returned"}

---------------------------------------------------------------------------
\* C1: every request frame read is answered by exactly one response frame
\* before the next request frame is read: the number of responses written
\* equals the number of requests read, or is one less while the request is
\* being handled (or when the transport threw before the response), and no
\* two responses are written without a request read in between.
C1_OneResponsePerRequest ==
    /\ nresp <= nreq
    /\ nreq - nresp <= 1
    /\ Count(ops, "write_response") <= 1
    /\ Count(ops, "read_request") <= 1
    /\ (pc = "dispatch" => nresp = nreq - 1 /\ ~Has(ops, "write_response"))
    /\ (pc \notin {"dispatch", "crashed"} => nresp = nreq)
    /\ (pc \notin {"dispatch", "crashed"} /\ nreq > 0 => Responded)
    /\ (Responded => nresp = nreq)

\* Two requests answered, the second in its data phase, where a write on
\* the transport that is no response frame is about to happen.
C1_Witness ==
    /\ nreq >= 2
    /\ nresp = nreq
    /\ pc = "info_write"
    /\ Count(ops, "write_response") = 1

\* The data phase a request is due, from its command and the response
\* written for it.
DueOps(br, result) ==
    IF br = "INFO" /\ result = 0 THEN <<"read0", "write_info">>
    ELSE IF br \in {"SHEL", "EXEC"} /\ result = 0 THEN <<"usb_transfer_socket">>
    ELSE IF br = "PULL" /\ result = 0 THEN <<"usb_transfer_read_fd">>
    ELSE IF br = "BLDR" /\ result > 0
    THEN [k \in 1..result |-> "usb_transfer_read_buffer"]
    ELSE <<>>

OpNames(log) == [k \in 1..Len(log) |-> log[k].op]

\* The data-phase operations of the record are those of the current
\* request, each after the request's response frame.
DataPhaseAfterResponse ==
    \A k \in 1..Len(ops) :
      ops[k].op \in DataOps =>
        /\ InRequest
        /\ \E j \in 2..(k - 1) : ops[j].op = "write_response"
        /\ \E n \in 1..Len(DueOps(Branch(ops[1].arg), Result)) :
             DueOps(Branch(ops[1].arg), Result)[n] = ops[k].op

\* When a frame is read, the data phase of the request before it is over:
\* every operation it is due has returned.
DataPhaseOverAtRead ==
    (nreq' = nreq + 1 /\ InRequest) =>
        /\ Responded
        /\ OpNames(DataPhase(ops)) = DueOps(Branch(ops[1].arg), Result)

\* C2: every data-phase transport operation of a request happens after the
\* request's response frame has been written, belongs to that request, and
\* has returned before the next request frame is read.
C2_DataPhaseOrdering ==
    [](DataPhaseAfterResponse) /\ [][DataPhaseOverAtRead]_vars

\* The third request is being handled after a two-block BLDR data phase
\* (the state of the loop when the third frame is read is the BLDR's).
C2_Witness ==
    /\ pc = "read"
    /\ nreq >= 2
    /\ nreq < MaxRequests
    /\ InRequest
    /\ Branch(ops[1].arg) = "BLDR"
    /\ Count(ops, "usb_transfer_read_buffer") = 2
    /\ Has(ops, "close")

\* C3: with the calls on the transport and the collaborators returning, the
\* response to every request read is written before anything else is read,
\* unless the transport throws, whatever the command and its outcome; and
\* after every request but EXIT the loop is back at the read of the next
\* frame, unless the transport threw or a bridge has not returned.
C3_EveryRequestAnswered ==
    /\ \A n \in 1..MaxRequests :
         (pc = "dispatch" /\ nreq = n)
             ~> (pc = "crashed" \/ (nresp = n /\ nreq = n))
    /\ (pc = "dispatch" /\ Branch(request) # "EXIT")
             ~> (pc \in {"read", "crashed", "shel_bridge", "exec_bridge"})
    /\ [][(pc \in {"shel_bridge", "exec_bridge"})
             => (pc' \in {"read", "crashed"})]_vars

\* A failed spawn has been answered with its code and the loop is reading.
C3_Witness ==
    /\ pc = "read"
    /\ nreq >= 2
    /\ nresp = nreq
    /\ InRequest
    /\ Branch(ops[1].arg) = "SHEL"
    /\ Responded
    /\ Result = -12

\* The response to an EXIT request has been written.
ExitAnswered == Responded /\ Branch(ops[1].arg) = "EXIT"

\* C4: an EXIT request is answered with result 0 and no data phase, and
\* once its response is written the loop has terminated: no frame is read
\* and no response is written any more.
C4_ExitTerminates ==
    /\ [](ExitAnswered => /\ Result = USB_RESULT_SUCCESS
                          /\ Terminated
                          /\ DataPhase(ops) = <<>>)
    /\ [](Terminated => ExitAnswered)
    /\ [][ExitAnswered => /\ ExitAnswered'
                          /\ nreq' = nreq
                          /\ nresp' = nresp
                          /\ ops[1] = ops'[1]]_vars

\* The loop has returned after EXIT with the host free to send more.
C4_Witness ==
    /\ pc = "returned"
    /\ ExitAnswered
    /\ nreq < MaxRequests

\* The state of the session that outlives a request.
session == <<fds, errno, transfer, cmd, image>>

\* The current request's tag is none of the seven commands.
UnknownRequest == InRequest /\ ops[1].arg.cmd \notin KnownTags

\* C5: a request whose tag is none of the seven commands is answered with
\* result -1, with no data-phase operation and no collaborator call, and
\* the loop goes on to the read of the next frame with the session as it was.
C5_UnknownTag ==
    /\ [](UnknownRequest =>
            /\ Len(Returned(ops)) <= 2
            /\ \A k \in 2..Len(ops) : ops[k].op \in {"write_response", "throw"}
            /\ (Responded => Result = USB_RESULT_ERROR /\ pc = "read")
            /\ pc \in {"dispatch", "read", "crashed"}
            /\ transfer = "live" /\ cmd = "live")
    /\ [][(pc = "dispatch" /\ request.cmd \notin KnownTags)
             => (session' = session /\ pc' \in {"read", "crashed"})]_vars

\* "TESU" has been answered and the loop may read a further frame.
C5_Witness ==
    /\ UnknownRequest
    /\ ops[1].arg.cmd = AsInt(<<84, 69, 83, 85>>)
    /\ Responded
    /\ pc = "read"
    /\ nreq < MaxRequests

\* The current request's tag is TEST.
TestRequest == InRequest /\ ops[1].arg.cmd = AsInt(<<84, 69, 83, 84>>)

\* C6: a TEST request is answered with result 0 and has no data phase (nor
\* any other call), whatever its payload and wherever it comes in the
\* sequence of requests.
C6_TestSucceeds ==
    TestRequest =>
        /\ Len(Returned(ops)) <= 2
        /\ \A k \in 2..Len(ops) : ops[k].op \in {"write_response", "throw"}
        /\ (Responded => Result = USB_RESULT_SUCCESS)
        /\ pc \in {"dispatch", "read", "crashed"}

\* A TEST with the payload "/missing", last of the requests, is answered.
C6_Witness ==
    /\ TestRequest
    /\ ops[1].arg.data = "/missing"
    /\ nreq = MaxRequests
    /\ Responded

\* C7: handling a TEST request writes the same response every time and
\* leaves the session (descriptors, transport, command channel) and the
\* loop as they were: the loop is back at the read of the next frame.
C7_TestIdempotent ==
    /\ [][(pc = "read" /\ pc' = "dispatch"
              /\ request'.cmd = AsInt(<<84, 69, 83, 84>>))
             => session' = session]_vars
    /\ [][(pc = "dispatch" /\ request.cmd = AsInt(<<84, 69, 83, 84>>))
             => /\ session' = session
                /\ response'.result = USB_RESULT_SUCCESS
                /\ pc' \in {"read", "crashed"}]_vars

\* A TEST that is not the first request has been handled, with the loop
\* reading again on the live transport.
C7_Witness ==
    /\ TestRequest
    /\ Responded
    /\ nreq >= 2
    /\ pc = "read"
    /\ transfer = "live" /\ cmd = "live"
    /\ fds = Empty

\* The current request's tag is INFO.
InfoRequest == InRequest /\ ops[1].arg.cmd = AsInt(<<73, 78, 70, 79>>)

\* The calls of an INFO request after the read, by what get_device_info
\* returned.
InfoCalls(err) ==
    IF err = 0
    THEN <<Ev("get_device_info", 0), Ev("write_response", 0),
           Ev("read0", 0), Ev("write_info", "device_info")>>
    ELSE <<Ev("get_device_info", err), Ev("write_response", err)>>

\* C8: for an INFO request, if get_device_info reports success the loop
\* writes result 0, then makes one zero-length read, then writes one
\* device-info record, in that order; if it reports err the result is err
\* and neither the read nor the record write happens before the next frame
\* is read.
C8_InfoProtocol ==
    (InfoRequest /\ Len(ops) >= 2) =>
        /\ ops[2].op = "get_device_info"
        /\ IsPrefix(Tail(Returned(ops)), InfoCalls(ops[2].arg))
        /\ (pc = "read" => Len(Tail(ops)) = Len(InfoCalls(ops[2].arg)))
        /\ (pc # "read" /\ pc # "crashed"
               => Len(Tail(ops)) < Len(InfoCalls(ops[2].arg)))

\* An INFO whose provider failed with -5 has been answered with -5 and the
\* loop is at the read of the next frame.
C8_Witness ==
    /\ InfoRequest
    /\ pc = "read"
    /\ nreq >= 2
    /\ Len(ops) = 3
    /\ ops[2].op = "get_device_info" /\ ops[2].arg = -5
    /\ ops[3].op = "write_response" /\ ops[3].arg = -5

\* The current request is a PULL whose open failed.
PullFailed ==
    /\ InRequest
    /\ ops[1].arg.cmd = AsInt(<<80, 85, 76, 76>>)
    /\ Responded
    /\ Open(Empty, ops[1].arg.data).ret < 0

\* C9 as stated: the result of a PULL whose open failed is the platform
\* error of the open attempt (ENOENT for a path that does not exist).
C9_ResultIsPlatformError ==
    PullFailed =>
        \/ Result = Open(Empty, ops[1].arg.data).errno
        \/ Result = -Open(Empty, ops[1].arg.data).errno

\* C9, amended: the result of a PULL whose open failed is the value open
\* returned, which is -1 whatever the platform error; no byte stream
\* follows and the loop goes on to read the next frame.
C9_PullFailure ==
    PullFailed =>
        /\ Result = -1
        /\ errno = Open(Empty, ops[1].arg.data).errno
        /\ Len(ops) = 3
        /\ DataPhase(ops) = <<>>
        /\ pc = "read"

\* A PULL of a path that does not exist has been answered.
C9_Witness ==
    /\ PullFailed
    /\ ops[1].arg.data \notin DOMAIN FileSystem
    /\ errno = ENOENT
    /\ nreq >= 2

\* The current request is a PULL of an existing readable path.
PullReadable ==
    /\ InRequest
    /\ ops[1].arg.cmd = AsInt(<<80, 85, 76, 76>>)
    /\ ops[1].arg.data \in DOMAIN FileSystem
    /\ FileSystem[ops[1].arg.data].readable

\* C10: a PULL of an existing readable path is answered with result 0,
\* followed by exactly one usb_transfer_read_fd, on the descriptor just
\* opened on that path, which streams the bytes of the file from the first
\* to the last.
C10_PullStreamsFile ==
    PullReadable =>
        /\ (Responded => Result = USB_RESULT_SUCCESS)
        /\ Count(ops, "usb_transfer_read_fd") <= 1
        /\ (pc = "read" => /\ Len(ops) = 4
                           /\ Count(ops, "usb_transfer_read_fd") = 1)
        /\ (pc = "pull_stream" =>
              /\ loc.fd \in DOMAIN fds
              /\ fds[loc.fd].path = ops[1].arg.data
              /\ fds[loc.fd].off = 0)
        /\ \A k \in 1..Len(ops) :
             ops[k].op = "usb_transfer_read_fd" =>
               /\ k = 4
               /\ ops[3].op = "write_response"
               /\ ops[k].arg.fd = loc.fd
               /\ ops[k].arg.fd >= 3
               /\ ops[k].arg.bytes = FileSystem[ops[1].arg.data].bytes

\* The file "/a" has been streamed in answer to a PULL.
C10_Witness ==
    /\ PullReadable
    /\ pc = "read"
    /\ nreq >= 2
    /\ Has(ops, "usb_transfer_read_fd")
    /\ ops[4].arg.bytes = <<7, 8, 7>>

\* The current request's tag is BLDR.
BldrRequest == InRequest /\ ops[1].arg.cmd = AsInt(<<66, 76, 68, 82>>)

\* The buffers streamed by usb_transfer_read_buffer, in order.
Streamed(log) ==
    SelectSeq(log, LAMBDA e : e.op = "usb_transfer_read_buffer")

\* C11 as stated: for a BLDR request the result is the number of blocks of
\* the image, and the data phase is that many usb_transfer_read_buffer
\* writes, the i-th carrying the content (and so the length) of the i-th
\* block of the image; no block, no write.
C11_BldrStreamsBlocks ==
    (BldrRequest /\ Responded) =>
        /\ Result = Len(image)
        /\ Len(Streamed(ops)) <= Len(image)
        /\ (pc = "read" => Len(Streamed(ops)) = Len(image))
        /\ \A i \in 1..Len(Streamed(ops)) : Streamed(ops)[i].arg = image[i]

\* The current request's tag is SHEL or EXEC and popen2 has been called.
SpawnRequest ==
    /\ InRequest
    /\ ops[1].arg.cmd \in {AsInt(<<83, 72, 69, 76>>), AsInt(<<69, 88, 69, 67>>)}
    /\ Len(ops) >= 2

\* C12: when the popen2 of a SHEL or EXEC request fails with a negative
\* code, the result is that code, usb_transfer_socket is not called, and
\* the loop goes on to read the next frame.
C12_SpawnFailure ==
    (SpawnRequest /\ loc.pid < 0) =>
        /\ ops[2].op = "popen2"
        /\ Len(ops) <= 3
        /\ ~Has(ops, "usb_transfer_socket")
        /\ (Responded => Result = loc.pid /\ pc = "read")
        /\ pc \in {"read", "crashed"}
        /\ fds = Empty

\* An EXEC whose spawn failed with -12 has been answered and the loop may
\* read a further frame.
C12_Witness ==
    /\ SpawnRequest
    /\ ops[1].arg.cmd = AsInt(<<69, 88, 69, 67>>)
    /\ loc.pid = -12
    /\ Responded
    /\ pc = "read"
    /\ nreq < MaxRequests

\* C13: a transport call that fails is not recovered from: the failure
\* leaves usbshell_loop at once, it is the last thing the loop does, and
\* after it no frame is read, no response is written and nothing is
\* retried.
C13_TransportFailureIsFatal ==
    /\ [](Has(ops, "throw") =>
            /\ pc = "crashed"
            /\ Count(ops, "throw") = 1
            /\ ops[Len(ops)].op = "throw")
    /\ [](pc = "crashed" => Has(ops, "throw"))
    /\ [][pc # "crashed"]_vars

\* The stream of a PULL has failed after one request was served, with the
\* host free to send more.
C13_Witness ==
    /\ pc = "crashed"
    /\ nreq = 2
    /\ nreq < MaxRequests
    /\ ops[Len(ops)].op = "throw"
    /\ ops[Len(ops)].arg = "usb_transfer_read_fd"

\* The loop is at the read of a frame or inside a handler.
Serving ==
    pc \in {"read", "dispatch", "info_read0", "info_write", "shel_bridge",
            "exec_bridge", "pull_stream", "bldr_get_blocks", "bldr_loop"}

\* What the loop does from the response to an EXIT on.
ExitCalls ==
    <<Ev("write_response", 0), Ev("usleep", 500), Ev("delete", "transfer"),
      Ev("delete", "cmd")>>

\* C14: the transport and its command channel are created once, before
\* the first request, and both are alive whenever a request is read or
\* handled; they are released only after the response to an EXIT, in the
\* order response, usleep, delete transfer, delete cmd.
C14_SessionLifetime ==
    /\ [](Serving => transfer = "live" /\ cmd = "live")
    /\ [](ExitAnswered =>
            /\ IsPrefix(Tail(ops), ExitCalls)
            /\ (transfer = "deleted" <=> Len(ops) >= 4)
            /\ (cmd = "deleted" <=> Len(ops) >= 5))
    /\ [](~ExitAnswered => transfer # "deleted" /\ cmd # "deleted")
    /\ [][(transfer' # transfer) =>
            \/ transfer = "none" /\ transfer' = "live" /\ nreq = 0
            \/ /\ transfer = "live" /\ transfer' = "deleted"
               /\ ExitAnswered
               /\ ops[Len(ops)].op = "usleep"]_vars
    /\ [][(cmd' # cmd) =>
            \/ cmd = "none" /\ cmd' = "live" /\ nreq = 0
            \/ /\ cmd = "live" /\ cmd' = "deleted"
               /\ ExitAnswered
               /\ transfer = "deleted"]_vars

\* The loop has returned after serving a request and then an EXIT, both
\* objects deleted.
C14_Witness ==
    /\ pc = "returned"
    /\ nreq >= 2
    /\ transfer = "deleted"
    /\ cmd = "deleted"
    /\ Len(ops) = 5

Command == Branch(ops[1].arg)

\* The operation of the current, answered request succeeded.
Succeeded ==
    CASE Command = "INFO" -> loc.err = 0
      [] Command \in {"SHEL", "EXEC"} -> loc.pid >= 0
      [] Command = "PULL" -> loc.fd >= 0
      [] Command = "unknown" -> FALSE
      [] OTHER -> TRUE

\* C16 as stated: the result of every request but BLDR is 0 on success
\* and negative on failure, never positive, whatever the collaborator
\* returned; the result of a BLDR is a non-negative count.
C16_SignConvention ==
    Responded =>
        IF Command = "BLDR" THEN Result >= 0
        ELSE /\ Result <= 0
             /\ (Result = 0 <=> Succeeded)

\* C16, amended: the result of a TEST, SHEL, EXEC, PULL, EXIT or unknown
\* request is 0 on success and negative on failure; the result of an INFO
\* is 0 on success and otherwise the code get_device_info returned,
\* unchanged, of whatever sign that code is; the result of a BLDR is the
\* count, which is not negative.
C16_ResultSigns ==
    Responded =>
        CASE Command = "BLDR" -> Result >= 0 /\ Result = loc.num_blocks
          [] Command = "INFO" -> /\ Result = loc.err
                                 /\ (Result = 0 <=> Succeeded)
          [] OTHER -> /\ Result <= 0
                      /\ (Result = 0 <=> Succeeded)

\* An INFO whose provider returned the positive code 22 has been answered
\* with 22.
C16_Witness ==
    /\ InfoRequest
    /\ Responded
    /\ loc.err = 22
    /\ Result = 22
    /\ pc = "read"

\* The current request is a BLDR whose open of the device failed.
BldrOpenFailed == BldrRequest /\ Len(ops) >= 3 /\ loc.fd < 0

\* The calls of a BLDR request after the read, for n blocks.
BldrCallNames(n) ==
    <<"open", "bootloader_get_num_blocks", "write_response",
      "bootloader_get_blocks">>
    \o [k \in 1..(2 * n) |-> IF k % 2 = 1 THEN "bootloader_read_block"
                             ELSE "usb_transfer_read_buffer"]
    \o <<"close">>

NamePrefix(s, t) == Len(s) <= Len(t) /\ \A k \in 1..Len(s) : s[k] = t[k]

\* C18: a BLDR whose open of the device failed gets no failure response
\* and no early return: the result is the block count, and the loop still
\* enumerates the blocks, reads and streams each of them and calls close,
\* all on the invalid handle, before it reads the next frame.
C18_BldrOpenUnchecked ==
    BldrOpenFailed =>
        /\ NamePrefix(OpNames(Tail(Returned(ops))), BldrCallNames(Len(image)))
        /\ (pc = "read" => Len(ops) = 1 + Len(BldrCallNames(Len(image))))
        /\ (Responded => Result = Len(image))
        /\ \A k \in 1..Len(ops) :
             ops[k].op \in {"bootloader_get_blocks", "bootloader_read_block",
                            "close"} => ops[k].arg = -1

\* A BLDR of a two-block image whose open failed is over, both blocks
\* streamed and close called, and the loop may read a further frame.
C18_Witness ==
    /\ BldrOpenFailed
    /\ pc = "read"
    /\ nreq < MaxRequests
    /\ Result = 2
    /\ Len(Streamed(ops)) = 2
    /\ ops[Len(ops)].op = "close"

\* The current request is a SHEL or EXEC whose spawn succeeded.
Spawned == SpawnRequest /\ loc.pid >= 0

\* The bridge calls in the record, in order.
Bridges(log) == SelectSeq(log, LAMBDA e : e.op = "usb_transfer_socket")

\* The open descriptors that lead to the standard input of a spawned
\* process.
StdinPipes == {d \in DOMAIN fds : fds[d].path = "stdin"}

\* C19: after a successful spawn SHEL and EXEC each write result 0 and run
\* one bridge. SHEL spawns sh -i and bridges the transport to the pipes of
\* its stdin and stdout; EXEC spawns sh -c <payload> with a stdout pipe
\* only and calls the bridge with 0, no descriptor of the spawned process,
\* as input side, so that no pipe to the process's stdin exists for the
\* bytes of the host to go to.
C19_BridgeWiring ==
    Spawned =>
        /\ (Responded => Result = USB_RESULT_SUCCESS)
        /\ Len(Bridges(ops)) <= 1
        /\ (pc = "read" => Len(Bridges(ops)) = 1)
        /\ IF Command = "SHEL"
           THEN /\ ops[2].arg = <<"sh", "-i">>
                /\ (pc = "shel_bridge" =>
                      /\ StdinPipes = {loc.fd_stdin}
                      /\ loc.fd_stdout \in DOMAIN fds
                      /\ fds[loc.fd_stdout].path = "stdout")
                /\ \A k \in 1..Len(Bridges(ops)) :
                     Bridges(ops)[k].arg = <<loc.fd_stdin, loc.fd_stdout>>
           ELSE /\ ops[2].arg = <<"sh", "-c", ops[1].arg.data>>
                /\ StdinPipes = {}
                /\ DOMAIN loc = {"pid", "fd_stdout"}
                /\ (pc = "exec_bridge" =>
                      /\ loc.fd_stdout \in DOMAIN fds
                      /\ fds[loc.fd_stdout].path = "stdout")
                /\ \A k \in 1..Len(Bridges(ops)) :
                     Bridges(ops)[k].arg = <<0, loc.fd_stdout>>

\* The bridge of an EXEC has returned and the loop is at the read.
C19_Witness ==
    /\ Spawned
    /\ Command = "EXEC"
    /\ pc = "read"
    /\ nreq >= 2
    /\ Len(Bridges(ops)) = 1
    /\ Bridges(ops)[1].arg[1] = 0

\* A data-phase operation of an INFO, SHEL, EXEC or PULL is in progress.
InDataPhase ==
    pc \in {"info_read0", "info_write", "shel_bridge", "exec_bridge",
            "pull_stream"}

\* C20: for every command but BLDR a data phase is entered only after a
\* response with result 0: while a data-phase operation of an INFO, SHEL,
\* EXEC or PULL is in progress, and whenever one is on record, the response
\* written last carried 0; and after a response with another result the
\* loop does nothing but read the next frame.
C20_DataPhaseOnlyAfterSuccess ==
    /\ (InDataPhase => Responded /\ Result = 0)
    /\ (InRequest /\ Command # "BLDR" /\ DataPhase(ops) # <<>>
          => Responded /\ Result = 0)
    /\ (Responded /\ Command # "BLDR" /\ Result # 0
          => /\ pc = "read"
             /\ ops[Len(ops)].op = "write_response")

\* An INFO answered with -5 has left the loop at the read, and the host may
\* send a further frame.
C20_Witness ==
    /\ InfoRequest
    /\ Responded
    /\ Result = -5
    /\ pc = "read"
    /\ nreq < MaxRequests
    /\ nreq >= 2

====
